---------------------------- MODULE Spec2Model ----------------------------
(***************************************************************************)
(* Model of fundamental_ratios.py: six ratio functions (ep_ratio,          *)
(* pb_ratio, current_ratio, ro_equity, ro_assets, div_growth).  Each one   *)
(* fetches tables from the data providers, evaluates one formula inside a  *)
(* try/except ZeroDivisionError, and deposits {name: value} under its own  *)
(* key of the shared concurrency_manager mapping.                          *)
(*                                                                         *)
(* Numbers.  A fetched number is a Python number, modelled by its exact    *)
(* rational value [n, d].  round(x, 2) yields an integer count of          *)
(* hundredths, round(x, 3) a count of thousandths: Float(digits, scaled)   *)
(* stands for scaled / 10^digits.                                          *)
(***************************************************************************)
EXTENDS Integers, Sequences, FiniteSets, TLC

VARIABLES pc, fetched, store, ret, calls

vars == <<pc, fetched, store, ret, calls>>

-----------------------------------------------------------------------------
(* Python values *)

PyNone == [kind |-> "None"]

PdNA == [kind |-> "NA"]

NaN == [kind |-> "nan"]

Inf == [kind |-> "inf"]

ZeroDivisionError == [kind |-> "ZeroDivisionError"]

Num(n, d) == [kind |-> "num", n |-> n, d |-> d]

Float(digits, scaled) == [kind |-> "float", digits |-> digits, scaled |-> scaled]

Abs(x) == IF x < 0 THEN -x ELSE x

Sign(x) == IF x < 0 THEN -1 ELSE IF x = 0 THEN 0 ELSE 1

RECURSIVE Gcd(_, _)
Gcd(a, b) == IF b = 0 THEN a ELSE Gcd(b, a % b)

\* The rational n/d in lowest terms with a positive denominator.
Rat(n, d) ==
    LET g == Gcd(Abs(n), Abs(d))
    IN  Num(Sign(d) * (n \div g), Abs(d) \div g)

FromInt(x) == Num(x, 1)

\* Python's a / b on numbers: raises ZeroDivisionError when b is zero.
TrueDiv(a, b) ==
    IF b.n = 0 THEN ZeroDivisionError
    ELSE Rat(a.n * b.d, a.d * b.n)

-----------------------------------------------------------------------------
(* round(): the quotient is an IEEE-754 double, and round(x, ndigits)      *)
(* rounds the double's exact value correctly, ties to even.  A decimal     *)
(* tie a/b = (2h+1)/(2*scale) is therefore decided by the side on which    *)
(* the double nearest to a/b lies.                                         *)

MantissaBits == 53

\* Rounding of the bits after the mantissa: remainder r of b, last kept bit.
RoundBit(r, b, lastBit) ==
    IF r = 0 THEN 0
    ELSE IF 2 * r > b THEN 1
    ELSE IF 2 * r < b THEN -1
    ELSE IF lastBit = 1 THEN 1 ELSE -1

\* Long division of r/b (r < b) bit by bit; left = mantissa bits still to
\* produce, started = a leading one bit has been produced.
RECURSIVE FracBits(_, _, _, _, _)
FracBits(r, b, left, started, lastBit) ==
    IF r = 0 THEN 0
    ELSE IF left = 0 THEN RoundBit(r, b, lastBit)
    ELSE LET bit == (2 * r) \div b
             rem == (2 * r) % b
         IN  IF started \/ bit = 1
             THEN FracBits(rem, b, left - 1, TRUE, bit)
             ELSE FracBits(rem, b, left, FALSE, 0)

RECURSIVE BitLength(_)
BitLength(i) == IF i = 0 THEN 0 ELSE 1 + BitLength(i \div 2)

\* Sign of double(a/b) - a/b for a >= 0, b > 0.
DoubleError(a, b) ==
    LET i == a \div b
    IN  FracBits(a % b, b, MantissaBits - BitLength(i), i > 0, i % 2)

\* round(x, digits) of a computed double x whose exact counterpart is n/d
\* and whose rounding error double - n/d has sign err (for |n/d|), with
\* scale = 10^digits; the result is a count of 1/scale.
RoundComputed(n, d, scale, err) ==
    LET a == Abs(n)
        q == (scale * a) \div d
        r == (scale * a) % d
        up == IF 2 * r > d THEN TRUE
              ELSE IF 2 * r < d THEN FALSE
              ELSE IF err = 0 THEN q % 2 = 1 ELSE err > 0
    IN  Sign(n) * (IF up THEN q + 1 ELSE q)

\* round(n/d, digits) where n/d was computed by one division of integers.
RoundScaled(n, d, scale) == RoundComputed(n, d, scale, DoubleError(Abs(n), d))

\* round(x, 2) of the quotient x of one division.
Round2(x) == Float(2, RoundScaled(x.n, x.d, 100))

-----------------------------------------------------------------------------
(* price / (equity / shares) rounds twice: the inner quotient is a double  *)
(* before the outer division.  A 53-bit mantissa is kept as <<hi, lo>> =   *)
(* hi * Limb + lo.                                                         *)

Limb == 2 ^ 26

Big(x) == <<x \div Limb, x % Limb>>

BigDouble(x, bit) ==
    LET l == 2 * x[2] + bit
    IN  <<2 * x[1] + l \div Limb, l % Limb>>

BigSucc(x) == IF x[2] + 1 = Limb THEN <<x[1] + 1, 0>> ELSE <<x[1], x[2] + 1>>

BigCmp(x, y) ==
    IF x[1] # y[1] THEN Sign(x[1] - y[1]) ELSE Sign(x[2] - y[2])

BigSub(x, y) ==
    IF x[2] >= y[2] THEN <<x[1] - y[1], x[2] - y[2]>>
    ELSE <<x[1] - y[1] - 1, x[2] + Limb - y[2]>>

BigOdd(x) == x[2] % 2 = 1

\* 2^52 and 2^53 as <<hi, lo>>.
MinMantissa == <<Limb, 0>>

MaxMantissa == <<2 * Limb, 0>>

\* Round-to-nearest-even of the mantissa s.m given the remainder s.r of the
\* divisor b (all as <<hi, lo>>); s.exp is the exponent of the unit of s.m.
RoundMantissa(s, b) ==
    LET c == BigCmp(BigDouble(s.r, 0), b)
        up == c > 0 \/ (c = 0 /\ BigOdd(s.m))
        m1 == IF up THEN BigSucc(s.m) ELSE s.m
    IN  IF BigCmp(m1, MaxMantissa) = 0
        THEN [m |-> MinMantissa, exp |-> s.exp + 1]
        ELSE [m |-> m1, exp |-> s.exp]

\* One more bit of the long division s.r / b.
DivStep(s, b) ==
    LET r2 == BigDouble(s.r, 0)
        bit == IF BigCmp(r2, b) >= 0 THEN 1 ELSE 0
    IN  [m |-> BigDouble(s.m, bit), exp |-> s.exp - 1,
         r |-> IF bit = 1 THEN BigSub(r2, b) ELSE r2]

\* Long division continued until the mantissa has 53 bits: the double
\* nearest to (s.m + s.r/b) * 2^s.exp.
RECURSIVE DivBits(_, _)
DivBits(s, b) ==
    IF BigCmp(s.m, MinMantissa) >= 0 THEN RoundMantissa(s, b)
    ELSE DivBits(DivStep(s, b), b)

\* double(a / b) for integers a > 0, b > 0 below 2^26.
DoubleOfQuotient(a, b) ==
    DivBits([m |-> Big(a \div b), exp |-> 0, r |-> Big(a % b)], Big(b))

\* double(p / x) for an integer p > 0 and a double x with a full mantissa.
DoubleOfIntOverDouble(p, x) ==
    LET y == DivBits([m |-> Big(0), exp |-> 0, r |-> Big(p)], x.m)
    IN  [m |-> y.m, exp |-> y.exp - x.exp]

\* floor(2^left * (s.int + s.r/b)), with s.int as <<hi, lo>>; stops early
\* once the integer part exceeds every mantissa.
RECURSIVE ScaleUp(_, _, _)
ScaleUp(left, s, b) ==
    IF left = 0 \/ BigCmp(s.int, MaxMantissa) > 0 THEN s
    ELSE ScaleUp(left - 1,
                 [int |-> BigDouble(s.int, (2 * s.r) \div b), r |-> (2 * s.r) % b],
                 b)

\* Sign of x - a/b for a double x = m * 2^exp with exp < 0.
DoubleCmp(x, a, b) ==
    LET t == ScaleUp(-x.exp, [int |-> Big(a \div b), r |-> a % b], b)
        k == BigCmp(x.m, t.int)
    IN  IF k # 0 THEN k ELSE IF t.r = 0 THEN 0 ELSE -1

IsPowerOfTwo(n) == n = 2 ^ (BitLength(n) - 1)

\* Which side of the exact value p*s/e the computed double p / (e / s) lies
\* on, for positive p, e, s.
NestedDoubleError(p, e, s) ==
    LET q == Rat(e, s)
        t == Rat(p * s, e)
    IN  IF IsPowerOfTwo(q.d) THEN DoubleError(t.n, t.d)
        ELSE DoubleCmp(DoubleOfIntOverDouble(p, DoubleOfQuotient(q.n, q.d)),
                       t.n, t.d)

\* round(price / (equity / shares), 2) for shares # 0 and equity # 0.
Round2Nested(price, equity, shares) ==
    LET t == Rat(price * shares, equity)
    IN  Float(2, RoundComputed(t.n, t.d, 100,
                               IF price = 0 THEN 0
                               ELSE NestedDoubleError(Abs(price), Abs(equity), Abs(shares))))

-----------------------------------------------------------------------------
(* Fetched data.  A fundamentals table has filing-date column labels and   *)
(* rows keyed by (line item code, label); a label is a string, kept as a   *)
(* sequence of tokens so that substring search and repetition are real.    *)

Table(columns, rows) == [columns |-> columns, rows |-> rows]

ASSETS == <<100, "Assets">>

LIABILITIES == <<600, "Liabilities">>

EQUITY == <<1400, "Equity">>

NET_INCOME == <<3200, "Net Income/Loss">>

BASIC_EPS == <<4200, "Basic Earnings Per Share">>

KeyError == [kind |-> "KeyError"]

FetchError == [kind |-> "FetchError"]

IsException(v) == v.kind \in {"KeyError", "FetchError"}

\* table.loc[key]: the row, or KeyError when the table has no such row.
Loc(table, key) ==
    IF key \in DOMAIN table.rows THEN table.rows[key] ELSE KeyError

\* table.loc[key][0]: the row's value in the first column.
LocFirst(table, key) ==
    IF key \in DOMAIN table.rows THEN FromInt(table.rows[key][1]) ELSE KeyError

\* sub in s, on strings.
Contains(s, sub) ==
    \E i \in 0..(Len(s) - Len(sub)) : SubSeq(s, i + 1, i + Len(sub)) = sub

\* n * s, on a string s.
RECURSIVE StrMul(_, _)
StrMul(n, s) == IF n <= 0 THEN <<>> ELSE s \o StrMul(n - 1, s)

RECURSIVE Sum(_)
Sum(xs) == IF xs = <<>> THEN 0 ELSE Head(xs) + Sum(Tail(xs))

Last(xs) == xs[Len(xs)]

RECURSIVE Reverse(_)
Reverse(xs) == IF xs = <<>> THEN <<>> ELSE Append(Reverse(Tail(xs)), Head(xs))

\* The day the functions run: str(today.year) and str(today - 100 days).
CurrentYear == <<"2026">>

HundredDaysAgo == <<"2025", "-12-31", " 09:30:00.000000">>

-----------------------------------------------------------------------------
(* What an invocation does once its data is fetched: it raises, or it      *)
(* writes {name: value} under key name and returns.                        *)

Raises(exc) == [status |-> "raised", exc |-> exc]

Returns(key, value, result) ==
    [status |-> "returned", key |-> key, entry |-> (key :> value), result |-> result]

\* A handler that would deposit the number 0 where the code deposits pd.NA.
DepositZero(key, r) ==
    IF r.kind = "ZeroDivisionError" THEN Returns(key, Float(2, 0), PyNone)
    ELSE Returns(key, r, r)

\* try: manager[key] = {key: round(x, 2)}; return round(x, 2)
\* except ZeroDivisionError: manager[key] = {key: pd.NA}; return None
\* where r is what the try block computed: the rounded quotient, or the
\* ZeroDivisionError its division raised.
Deposit(key, r) ==
    IF r.kind = "ZeroDivisionError" THEN Returns(key, PdNA, PyNone)
    ELSE Returns(key, r, r)

PadTo == 4

\* A selection that would keep only the first PadTo filings of the year.
SelectedFilingsCapped(filings_dates) ==
    LET current_years_filings ==
            SelectSeq(filings_dates, LAMBDA date : Contains(date, CurrentYear))
        n == Len(current_years_filings)
    IN  IF n = 0
        THEN SelectSeq(filings_dates, LAMBDA date : Contains(date, HundredDaysAgo))
        ELSE IF n > PadTo THEN SubSeq(current_years_filings, 1, PadTo)
        ELSE current_years_filings

\* current_years_filings after the padding and fallback rules.
SelectedFilings(filings_dates) ==
    LET current_years_filings ==
            SelectSeq(filings_dates, LAMBDA date : Contains(date, CurrentYear))
        n == Len(current_years_filings)
    IN  IF PadTo > n /\ n > 0
        THEN current_years_filings
               \o <<StrMul(PadTo - n, current_years_filings[1])>>
        ELSE IF n = 0
        THEN SelectSeq(filings_dates, LAMBDA date : Contains(date, HundredDaysAgo))
        ELSE current_years_filings

ColumnOf(table, label) == CHOOSE i \in 1..Len(table.columns) : table.columns[i] = label

\* A lookup that would fail on an empty selection.
SelectedEpsStrict(fundamentals, selected) ==
    IF selected = <<>> THEN KeyError
    ELSE IF \E i \in 1..Len(selected) :
           \A j \in 1..Len(fundamentals.columns) : fundamentals.columns[j] # selected[i]
    THEN KeyError
    ELSE IF BASIC_EPS \notin DOMAIN fundamentals.rows THEN KeyError
    ELSE [kind |-> "list",
          items |-> [i \in 1..Len(selected) |->
                        fundamentals.rows[BASIC_EPS][ColumnOf(fundamentals, selected[i])]]]

\* fundamentals[selected].loc[BASIC_EPS].to_list()
SelectedEps(fundamentals, selected) ==
    IF \E i \in 1..Len(selected) :
           \A j \in 1..Len(fundamentals.columns) : fundamentals.columns[j] # selected[i]
    THEN KeyError
    ELSE IF BASIC_EPS \notin DOMAIN fundamentals.rows THEN KeyError
    ELSE [kind |-> "list",
          items |-> [i \in 1..Len(selected) |->
                        fundamentals.rows[BASIC_EPS][ColumnOf(fundamentals, selected[i])]]]

EpRatio(d) ==
    LET fundamentals == d.income_statement
        eps == SelectedEps(fundamentals, SelectedFilings(fundamentals.columns))
    IN  IF eps.kind = "KeyError" THEN Raises(KeyError)
        ELSE LET summed_eps == Sum(eps.items)
                 price == Last(d.prices)
                 stock_ep_ratio == TrueDiv(FromInt(summed_eps), FromInt(price))
             IN  Deposit("E/P Ratio",
                         IF stock_ep_ratio.kind = "ZeroDivisionError"
                         THEN stock_ep_ratio ELSE Round2(stock_ep_ratio))

\* A pb_ratio whose handler would cover only the inner division.
PbRatioInnerOnly(d) ==
    LET equity == LocFirst(d.balance_sheet, EQUITY)
        shares == FromInt(d.stock_infos.weighted_shares_outstanding)
        price == FromInt(Last(d.prices))
    IN  IF equity.kind = "KeyError" THEN Raises(KeyError)
        ELSE LET book == TrueDiv(equity, shares)
             IN  IF book.kind = "ZeroDivisionError" THEN Deposit("P/B Ratio", book)
                 ELSE IF book.n = 0 THEN Raises(ZeroDivisionError)
                 ELSE Deposit("P/B Ratio", Round2Nested(price.n, equity.n, shares.n))

PbRatio(d) ==
    LET equity == LocFirst(d.balance_sheet, EQUITY)
        shares == FromInt(d.stock_infos.weighted_shares_outstanding)
        price == FromInt(Last(d.prices))
    IN  IF equity.kind = "KeyError" THEN Raises(KeyError)
        ELSE LET book == TrueDiv(equity, shares)
                 pb_ratio == IF book.kind = "ZeroDivisionError" THEN book
                             ELSE TrueDiv(price, book)
             IN  Deposit("P/B Ratio",
                         IF pb_ratio.kind = "ZeroDivisionError" THEN pb_ratio
                         ELSE Round2Nested(price.n, equity.n, shares.n))

CurrentRatio(d) ==
    LET assets == LocFirst(d.balance_sheet, ASSETS)
        liabilities == LocFirst(d.balance_sheet, LIABILITIES)
    IN  IF assets.kind = "KeyError" \/ liabilities.kind = "KeyError"
        THEN Raises(KeyError)
        ELSE LET current_ratio == TrueDiv(assets, liabilities)
             IN  Deposit("Current Ratio",
                         IF current_ratio.kind = "ZeroDivisionError" THEN current_ratio
                         ELSE Round2(current_ratio))

RoEquity(d) ==
    LET equity == LocFirst(d.balance_sheet, EQUITY)
        income == LocFirst(d.income_statement, NET_INCOME)
    IN  IF equity.kind = "KeyError" \/ income.kind = "KeyError"
        THEN Raises(KeyError)
        ELSE LET roe == TrueDiv(income, equity)
             IN  Deposit("ROE",
                         IF roe.kind = "ZeroDivisionError" THEN roe
                         ELSE Round2(roe))

\* A ro_assets that would write under the key of ro_equity.
RoAssetsUnderRoe(d) ==
    LET assets == LocFirst(d.balance_sheet, ASSETS)
        income == LocFirst(d.income_statement, NET_INCOME)
    IN  IF assets.kind = "KeyError" \/ income.kind = "KeyError"
        THEN Raises(KeyError)
        ELSE LET roa == TrueDiv(income, assets)
             IN  Deposit("ROE",
                         IF roa.kind = "ZeroDivisionError" THEN roa
                         ELSE Round2(roa))

RoAssets(d) ==
    LET assets == LocFirst(d.balance_sheet, ASSETS)
        income == LocFirst(d.income_statement, NET_INCOME)
    IN  IF assets.kind = "KeyError" \/ income.kind = "KeyError"
        THEN Raises(KeyError)
        ELSE LET roa == TrueDiv(income, assets)
             IN  Deposit("ROA",
                         IF roa.kind = "ZeroDivisionError" THEN roa
                         ELSE Round2(roa))

\* cash_amount[::-1].pct_change(periods=1): entry i is amounts[i] /
\* amounts[i-1] - 1, as 1 + rate; the first entry is NaN, 0/0 is NaN and
\* x/0 is inf.
PctChange(amounts) ==
    [i \in 1..Len(amounts) |->
        IF i = 1 THEN NaN
        ELSE IF amounts[i - 1] = 0
             THEN (IF amounts[i] = 0 THEN NaN ELSE Inf)
             ELSE Rat(amounts[i], amounts[i - 1])]

DropNa(xs) == SelectSeq(xs, LAMBDA x : x.kind # "nan")

RECURSIVE Product(_)
Product(xs) ==
    IF xs = <<>> THEN Num(1, 1)
    ELSE LET rest == Product(Tail(xs))
         IN  Rat(Head(xs).n * rest.n, Head(xs).d * rest.d)

\* The largest x in lo..hi with x^m * q <= p * unit^m (lo satisfies it).
RECURSIVE RootFloor(_, _, _, _, _, _)
RootFloor(lo, hi, p, q, m, unit) ==
    IF lo = hi THEN lo
    ELSE LET mid == (lo + hi + 1) \div 2
         IN  IF (mid ^ m) * q <= p * (unit ^ m)
             THEN RootFloor(mid, hi, p, q, m, unit)
             ELSE RootFloor(lo, mid - 1, p, q, m, unit)

\* round(gmean(growth) - 1, 3) for growth factors 1 + rate.  log and exp
\* are taken as exact: x is the root in units of 1/2000, rounded to the
\* nearest 1/1000.
AverageGrowth(growth) ==
    LET m == Len(growth)
        infs == \E i \in 1..m : growth[i].kind = "inf"
        zeros == \E i \in 1..m : growth[i].kind = "num" /\ growth[i].n = 0
    IN  IF m = 0 \/ (infs /\ zeros) THEN NaN
        ELSE IF infs THEN Inf
        ELSE IF zeros THEN Float(3, -1000)
        ELSE LET pr == Product(growth)
                 x == RootFloor(0, 2000 * (pr.n \div pr.d + 1), pr.n, pr.d, m, 2000)
             IN  Float(3, (x + 1) \div 2 - 1000)

\* A div_growth that would take the changes in the fetched order.
DivGrowthUnreversed(d) ==
    LET dividends == d.dividends
        dividends_growth == DropNa(PctChange(dividends))
        average_dividends == AverageGrowth(dividends_growth)
    IN  Returns("Average Dividend growth", average_dividends, average_dividends)

DivGrowth(d) ==
    LET dividends == d.dividends
        dividends_growth == DropNa(PctChange(Reverse(dividends)))
        average_dividends == AverageGrowth(dividends_growth)
    IN  Returns("Average Dividend growth", average_dividends, average_dividends)

-----------------------------------------------------------------------------
(* The six functions and the shared results store. *)

Funcs == {"ep_ratio", "pb_ratio", "current_ratio", "ro_equity", "ro_assets",
          "div_growth"}

\* What function f does with the data d its fetches returned.
Outcome(f, d) ==
    CASE f = "ep_ratio" -> EpRatio(d)
      [] f = "pb_ratio" -> PbRatio(d)
      [] f = "current_ratio" -> CurrentRatio(d)
      [] f = "ro_equity" -> RoEquity(d)
      [] f = "ro_assets" -> RoAssets(d)
      [] f = "div_growth" -> DivGrowth(d)

\* The key each function writes.
KeyOf(f) ==
    CASE f = "ep_ratio" -> "E/P Ratio"
      [] f = "pb_ratio" -> "P/B Ratio"
      [] f = "current_ratio" -> "Current Ratio"
      [] f = "ro_equity" -> "ROE"
      [] f = "ro_assets" -> "ROA"
      [] f = "div_growth" -> "Average Dividend growth"

\* concurrency_manager[key] = entry
Put(manager, key, entry) ==
    [k \in DOMAIN manager \cup {key} |-> IF k = key THEN entry ELSE manager[k]]

EmptyStore == [k \in {} |-> PdNA]

NoData == [kind |-> "nodata"]

NoResult == [kind |-> "noresult"]

-----------------------------------------------------------------------------
(* Provider answers.  Absent marks a row the fetched table does not have,   *)
(* Cell(x) a row whose first column holds x.                               *)

Absent == [present |-> FALSE, value |-> 0]

Cell(x) == [present |-> TRUE, value |-> x]

Cells(xs) == {Cell(x) : x \in xs}

Rows(pairs) ==
    LET present == {q \in pairs : q[2].present}
    IN  [k \in {q[1] : q \in present} |->
            <<(CHOOSE q \in present : q[1] = k)[2].value>>]

BalanceSheet(assets, liabilities, equity) ==
    Table(<<<<"2026", "-03-31">>>>,
          Rows({<<ASSETS, assets>>, <<LIABILITIES, liabilities>>, <<EQUITY, equity>>}))

\* The income statement of the functions that read Net Income/Loss.
IncomeStatement(income) ==
    Table(<<<<"2026", "-03-31">>>>, Rows({<<NET_INCOME, income>>}))

MaxFilings == 5

Quarter == <<"-01-31", "-02-28", "-03-31", "-04-30", "-05-31", "-06-30", "-07-31",
             "-08-31", "-09-30", "-10-31", "-11-30", "-12-31">>

EpsPatterns == {"profit", "none", "loss"}

\* The Basic EPS reported in column i.
EpsValue(pattern, i) ==
    CASE pattern = "profit" -> 2 * i + 1
      [] pattern = "none" -> 0
      [] pattern = "loss" -> 2 - i

\* An income statement with n filings of the current year (newest first),
\* then, as asked, a column labelled with the timestamp of 100 days ago and
\* a filing of the previous year.
Filings(n, stamped, older, pattern, hasEps) ==
    LET columns == [i \in 1..n |-> <<"2026", Quarter[i]>>]
                     \o (IF stamped THEN <<HundredDaysAgo>> ELSE <<>>)
                     \o (IF older THEN <<<<"2025", "-09-30">>>> ELSE <<>>)
        values == [i \in 1..Len(columns) |-> EpsValue(pattern, i)]
    IN  Table(columns,
              IF hasEps THEN (BASIC_EPS :> values) ELSE (NET_INCOME :> values))

Prices(close) == <<close + 1, close>>

AssetValues == {Absent} \cup Cells({0, 3, 500, 1000})

LiabilityValues == {Absent} \cup Cells({0, 7, 8, 250})

EquityValues == {Absent} \cup Cells({-8, 0, 40, 100, 200})

IncomeValues == {Absent} \cup Cells({-50, 0, 1, 50})

ShareValues == {0, 3, 10}

PriceValues == {0, 3, 8, 20}

DividendHistories ==
    {<<121, 110, 100>>, <<100, 110, 121>>, <<132, 110, 100>>, <<110, 100>>,
     <<100, 100, 100>>, <<55, 50, 50>>, <<100>>, <<0, 100>>, <<100, 0>>,
     <<100, 0, 0>>, <<50, 0, 100>>}

\* Every answer considered for one invocation of f.
Answers(f) ==
    CASE f = "ep_ratio" ->
           {[income_statement |-> Filings(n, st, ol, pt, he), prices |-> Prices(p)] :
               n \in 0..MaxFilings, st \in BOOLEAN, ol \in BOOLEAN,
               pt \in EpsPatterns, he \in BOOLEAN, p \in PriceValues}
      [] f = "pb_ratio" ->
           {[balance_sheet |-> BalanceSheet(Cell(500), Cell(250), e),
             stock_infos |-> [weighted_shares_outstanding |-> sh],
             prices |-> Prices(p)] :
               e \in EquityValues, sh \in ShareValues, p \in PriceValues}
      [] f = "current_ratio" ->
           {[balance_sheet |-> BalanceSheet(a, l, Cell(100))] :
               a \in AssetValues, l \in LiabilityValues}
      [] f = "ro_equity" ->
           {[balance_sheet |-> BalanceSheet(Cell(500), Cell(250), e),
             income_statement |-> IncomeStatement(i)] :
               e \in EquityValues, i \in IncomeValues}
      [] f = "ro_assets" ->
           {[balance_sheet |-> BalanceSheet(a, Cell(250), Cell(100)),
             income_statement |-> IncomeStatement(i)] :
               a \in AssetValues, i \in IncomeValues}
      [] f = "div_growth" -> {[dividends |-> h] : h \in DividendHistories}

\* Two answers per function, for the runs that interleave all six.
FewAnswers(f) ==
    CASE f = "ep_ratio" ->
           {[income_statement |-> Filings(n, FALSE, TRUE, "profit", TRUE),
             prices |-> Prices(20)] : n \in {2, 4}}
      [] f = "pb_ratio" ->
           {[balance_sheet |-> BalanceSheet(Cell(500), Cell(250), e),
             stock_infos |-> [weighted_shares_outstanding |-> 10],
             prices |-> Prices(20)] : e \in Cells({0, 100})}
      [] f = "current_ratio" ->
           {[balance_sheet |-> BalanceSheet(Cell(500), l, Cell(100))] : l \in Cells({0, 250})}
      [] f = "ro_equity" ->
           {[balance_sheet |-> BalanceSheet(Cell(500), Cell(250), e),
             income_statement |-> IncomeStatement(Cell(50))] : e \in {Absent, Cell(200)}}
      [] f = "ro_assets" ->
           {[balance_sheet |-> BalanceSheet(Cell(1000), Cell(250), Cell(100)),
             income_statement |-> IncomeStatement(i)] : i \in Cells({0, 50})}
      [] f = "div_growth" -> {[dividends |-> h] : h \in {<<121, 110, 100>>, <<100>>}}

-----------------------------------------------------------------------------
(* State.  pc[f]: idle, fetch (blocked in the provider calls), body (data  *)
(* arrived), done, raised.  fetched[f]: the data of f's running or last    *)
(* invocation.  store: the concurrency_manager mapping.  ret[f]: what f's  *)
(* last finished invocation gave its caller.                               *)

Init ==
    /\ pc = [f \in Funcs |-> "idle"]
    /\ fetched = [f \in Funcs |-> NoData]
    /\ store = EmptyStore
    /\ ret = [f \in Funcs |-> NoResult]
    /\ calls = 0

Finished(f) == pc[f] \in {"done", "raised"}

Quiet == \A g \in Funcs : pc[g] \in {"idle", "done", "raised"}

\* f is invoked; it blocks in its first provider call.
Call(f) ==
    /\ pc[f] = "idle"
    /\ pc' = [pc EXCEPT ![f] = "fetch"]
    /\ calls' = calls + 1
    /\ UNCHANGED <<fetched, store, ret>>

\* The providers answer with d.
Fetch(f, d) ==
    /\ pc[f] = "fetch"
    /\ pc' = [pc EXCEPT ![f] = "body"]
    /\ fetched' = [fetched EXCEPT ![f] = d]
    /\ UNCHANGED <<store, ret, calls>>

\* A provider call raises: the invocation ends before it computes anything.
FetchFault(f) ==
    /\ pc[f] = "fetch"
    /\ pc' = [pc EXCEPT ![f] = "raised"]
    /\ ret' = [ret EXCEPT ![f] = FetchError]
    /\ UNCHANGED <<fetched, store, calls>>

\* A body that would deposit the missing marker when a lookup fails.
BodyMarkingFaults(f) ==
    /\ pc[f] = "body"
    /\ LET o == Outcome(f, fetched[f])
       IN  IF o.status = "raised"
           THEN /\ pc' = [pc EXCEPT ![f] = "raised"]
                /\ ret' = [ret EXCEPT ![f] = o.exc]
                /\ store' = Put(store, KeyOf(f), KeyOf(f) :> PdNA)
           ELSE /\ pc' = [pc EXCEPT ![f] = "done"]
                /\ store' = Put(store, o.key, o.entry)
                /\ ret' = [ret EXCEPT ![f] = o.result]
    /\ UNCHANGED <<fetched, calls>>

\* The rest of f's body, on the fetched data.
Body(f) ==
    /\ pc[f] = "body"
    /\ LET o == Outcome(f, fetched[f])
       IN  IF o.status = "raised"
           THEN /\ pc' = [pc EXCEPT ![f] = "raised"]
                /\ ret' = [ret EXCEPT ![f] = o.exc]
                /\ UNCHANGED store
           ELSE /\ pc' = [pc EXCEPT ![f] = "done"]
                /\ store' = Put(store, o.key, o.entry)
                /\ ret' = [ret EXCEPT ![f] = o.result]
    /\ UNCHANGED <<fetched, calls>>

ep_ratio == Body("ep_ratio")

pb_ratio == Body("pb_ratio")

current_ratio == Body("current_ratio")

ro_equity == Body("ro_equity")

ro_assets == Body("ro_assets")

div_growth == Body("div_growth")

Bodies ==
    \/ ep_ratio
    \/ pb_ratio
    \/ current_ratio
    \/ ro_equity
    \/ ro_assets
    \/ div_growth

\* One task per function, all six running concurrently.
Next ==
    \/ \E f \in Funcs : Call(f)
    \/ \E f \in Funcs : \E d \in FewAnswers(f) : Fetch(f, d)
    \/ \E f \in Funcs : FetchFault(f)
    \/ Bodies

Spec == Init /\ [][Next]_vars

\* One invocation of one function, over every answer.
CallAlone(f) ==
    /\ \A g \in Funcs : pc[g] = "idle"
    /\ Call(f)

NextCalc ==
    \/ \E f \in Funcs : CallAlone(f)
    \/ \E f \in Funcs : \E d \in Answers(f) : Fetch(f, d)
    \/ \E f \in Funcs : FetchFault(f)
    \/ Bodies

SpecCalc == Init /\ [][NextCalc]_vars

MaxCalls == 3

\* The functions invoked one after another, any of them again and again.
Invoke(f) ==
    /\ Quiet
    /\ calls < MaxCalls
    /\ pc' = [pc EXCEPT ![f] = "fetch"]
    /\ fetched' = [fetched EXCEPT ![f] = NoData]
    /\ calls' = calls + 1
    /\ UNCHANGED <<store, ret>>

NextSeq ==
    \/ \E f \in Funcs : Invoke(f)
    \/ \E f \in Funcs : \E d \in FewAnswers(f) : Fetch(f, d)
    \/ \E f \in Funcs : FetchFault(f)
    \/ Bodies

SpecSeq == Init /\ [][NextSeq]_vars

-----------------------------------------------------------------------------
(* Vocabulary of the properties. *)

Ratios == Funcs \ {"div_growth"}

HasData(f) == fetched[f] # NoData

\* The entry under f's key, when there is one.
Stored(f) == store[KeyOf(f)][KeyOf(f)]

Wrote(f) == KeyOf(f) \in DOMAIN store

\* f's invocation completed with the missing marker stored and None returned.
GaveMissing(f) ==
    /\ pc[f] = "done"
    /\ ret[f] = PyNone
    /\ Wrote(f)
    /\ store[KeyOf(f)] = (KeyOf(f) :> PdNA)

\* f's invocation raised a lookup failure and wrote nothing.
LookupFailed(f) ==
    /\ pc[f] = "raised"
    /\ ret[f] = KeyError
    /\ ~Wrote(f)

HasRow(table, key) == key \in DOMAIN table.rows

First(table, key) == table.rows[key][1]

\* The columns of the income statement whose label contains the year.
ThisYear(table) == {i \in 1..Len(table.columns) : Contains(table.columns[i], CurrentYear)}

Stamped(table) == {i \in 1..Len(table.columns) : Contains(table.columns[i], HundredDaysAgo)}

RECURSIVE SumOver(_, _)
SumOver(row, cols) ==
    IF cols = {} THEN 0
    ELSE LET i == CHOOSE i \in cols : TRUE
         IN  row[i] + SumOver(row, cols \ {i})

Least(cols) == CHOOSE i \in cols : \A j \in cols : i <= j

\* The summed EPS the padding rule of the specification describes: all
\* matched columns, the first of them counted again for each one missing
\* to four; with no match, the columns of 100 days ago.
SpecifiedEps(table) ==
    LET row == table.rows[BASIC_EPS]
        k == Cardinality(ThisYear(table))
    IN  IF k = 0 THEN SumOver(row, Stamped(table))
        ELSE IF k < PadTo THEN SumOver(row, ThisYear(table))
                                 + (PadTo - k) * row[Least(ThisYear(table))]
        ELSE SumOver(row, ThisYear(table))

\* The operands of f's formula are all there.
OperandsPresent(f) ==
    LET d == fetched[f]
    IN  CASE f = "ep_ratio" -> HasRow(d.income_statement, BASIC_EPS)
          [] f = "pb_ratio" -> HasRow(d.balance_sheet, EQUITY)
          [] f = "current_ratio" ->
               HasRow(d.balance_sheet, ASSETS) /\ HasRow(d.balance_sheet, LIABILITIES)
          [] f = "ro_equity" ->
               HasRow(d.balance_sheet, EQUITY) /\ HasRow(d.income_statement, NET_INCOME)
          [] f = "ro_assets" ->
               HasRow(d.balance_sheet, ASSETS) /\ HasRow(d.income_statement, NET_INCOME)

\* Numerator and denominator of f's formula as one fraction of integers
\* (price / (equity / shares) = price * shares / equity).
Numerator(f) ==
    LET d == fetched[f]
    IN  CASE f = "ep_ratio" -> SpecifiedEps(d.income_statement)
          [] f = "pb_ratio" ->
               Last(d.prices) * d.stock_infos.weighted_shares_outstanding
          [] f = "current_ratio" -> First(d.balance_sheet, ASSETS)
          [] f = "ro_equity" -> First(d.income_statement, NET_INCOME)
          [] f = "ro_assets" -> First(d.income_statement, NET_INCOME)

Denominator(f) ==
    LET d == fetched[f]
    IN  CASE f = "ep_ratio" -> Last(d.prices)
          [] f = "pb_ratio" -> First(d.balance_sheet, EQUITY)
          [] f = "current_ratio" -> First(d.balance_sheet, LIABILITIES)
          [] f = "ro_equity" -> First(d.balance_sheet, EQUITY)
          [] f = "ro_assets" -> First(d.balance_sheet, ASSETS)

\* Some division of f's formula divides by zero.
ZeroDenominator(f) ==
    \/ Denominator(f) = 0
    \/ f = "pb_ratio" /\ fetched[f].stock_infos.weighted_shares_outstanding = 0

\* v is n/d rounded to the nearest 1/100.
IsRounded2(v, n, d) ==
    /\ v.kind = "float"
    /\ v.digits = 2
    /\ 2 * Abs(100 * n - v.scaled * d) <= Abs(d)

\* f's invocation completed, returning its formula rounded to 2 decimals
\* and storing the same number.
GaveRatio(f) ==
    /\ pc[f] = "done"
    /\ IsRounded2(ret[f], Numerator(f), Denominator(f))
    /\ Wrote(f)
    /\ store[KeyOf(f)] = (KeyOf(f) :> ret[f])

-----------------------------------------------------------------------------
(* Properties. *)

\* C1: for ep_ratio, current_ratio, ro_equity and ro_assets, a zero
\* denominator never makes the invocation raise: it returns None and the
\* store holds the missing marker under the function's key.
C1_ZeroDenominatorGivesMissing ==
    \A f \in {"ep_ratio", "current_ratio", "ro_equity", "ro_assets"} :
        (Finished(f) /\ HasData(f) /\ OperandsPresent(f) /\ Denominator(f) = 0)
            => GaveMissing(f)

\* C2: with non-zero denominators every ratio function returns its formula
\* rounded to 2 decimals and deposits that same number; equity 100, shares
\* 10, price 20 gives 2.00.
C2_RatioIsRoundedFormula ==
    \A f \in Ratios :
        (Finished(f) /\ HasData(f) /\ OperandsPresent(f) /\ ~ZeroDenominator(f))
            => GaveRatio(f)

\* C3: with 1 to 3 filings of the current year the selected list has
\* exactly 4 entries, the appended ones equal to the first match, so that
\* the EPS of the first match is counted once more per appended entry.
C3_PaddedToFour ==
    LET table == fetched["ep_ratio"].income_statement
        k == Cardinality(ThisYear(table))
        selected == SelectedFilings(table.columns)
    IN  (/\ Finished("ep_ratio") /\ HasData("ep_ratio")
         /\ HasRow(table, BASIC_EPS)
         /\ k \in 1..(PadTo - 1))
            => /\ Len(selected) = PadTo
               /\ \A i \in (k + 1)..Len(selected) :
                      selected[i] = table.columns[Least(ThisYear(table))]
               /\ Last(fetched["ep_ratio"].prices) # 0 => GaveRatio("ep_ratio")

\* C5: in pb_ratio both zero paths, shares = 0 (inner division) and
\* equity = 0 with shares non-zero (outer division), give the missing
\* marker under 'P/B Ratio' and a None return instead of an exception.
C5_PbZeroPathsGiveMissing ==
    (/\ Finished("pb_ratio") /\ HasData("pb_ratio")
     /\ OperandsPresent("pb_ratio")
     /\ ZeroDenominator("pb_ratio"))
        => GaveMissing("pb_ratio")

C5_Witness ==
    /\ GaveMissing("pb_ratio")
    /\ fetched["pb_ratio"].stock_infos.weighted_shares_outstanding # 0
    /\ First(fetched["pb_ratio"].balance_sheet, EQUITY) = 0
    /\ Last(fetched["pb_ratio"].prices) # 0

\* No filing of the current year and no column of 100 days ago.
NothingSelected(table) == ThisYear(table) = {} /\ Stamped(table) = {}

\* C6 as stated: with nothing selected the invocation ends in a lookup
\* failure and writes nothing under 'E/P Ratio'.
C6_NothingSelectedRaises ==
    (/\ Finished("ep_ratio") /\ HasData("ep_ratio")
     /\ NothingSelected(fetched["ep_ratio"].income_statement))
        => LookupFailed("ep_ratio")

\* C6 amended: with nothing selected the lookup of the empty selection
\* succeeds when the table has the Basic EPS row; the summed EPS is 0, so
\* for a non-zero price the invocation deposits and returns 0.0 under
\* 'E/P Ratio'.  Only a table without the Basic EPS row ends in a lookup
\* failure with nothing written.
C6_NothingSelectedGivesZero ==
    LET d == fetched["ep_ratio"]
    IN  (Finished("ep_ratio") /\ HasData("ep_ratio") /\ NothingSelected(d.income_statement))
            => /\ ~HasRow(d.income_statement, BASIC_EPS) => LookupFailed("ep_ratio")
               /\ (HasRow(d.income_statement, BASIC_EPS) /\ Last(d.prices) # 0)
                      => /\ pc["ep_ratio"] = "done"
                         /\ ret["ep_ratio"] = Float(2, 0)
                         /\ Wrote("ep_ratio")
                         /\ store["E/P Ratio"] = ("E/P Ratio" :> Float(2, 0))

C6_Witness ==
    /\ pc["ep_ratio"] = "done"
    /\ NothingSelected(fetched["ep_ratio"].income_statement)
    /\ Len(fetched["ep_ratio"].income_statement.columns) > 0
    /\ Wrote("ep_ratio")
    /\ Stored("ep_ratio") = Float(2, 0)

\* C7: with 4 or more filings of the current year the selected list is the
\* matched columns, unpadded and untruncated, and the summed EPS is the sum
\* over all of them.
C7_AllMatchedSummed ==
    LET d == fetched["ep_ratio"]
        table == d.income_statement
        matched == ThisYear(table)
        selected == SelectedFilings(table.columns)
    IN  (/\ Finished("ep_ratio") /\ HasData("ep_ratio")
         /\ HasRow(table, BASIC_EPS)
         /\ Cardinality(matched) >= PadTo)
            => /\ Len(selected) = Cardinality(matched)
               /\ {selected[i] : i \in 1..Len(selected)} = {table.columns[i] : i \in matched}
               /\ pc["ep_ratio"] = "done"
               /\ Last(d.prices) # 0 =>
                      /\ IsRounded2(ret["ep_ratio"],
                                    SumOver(table.rows[BASIC_EPS], matched), Last(d.prices))
                      /\ store["E/P Ratio"] = ("E/P Ratio" :> ret["ep_ratio"])

C7_Witness ==
    /\ pc["ep_ratio"] = "done"
    /\ Cardinality(ThisYear(fetched["ep_ratio"].income_statement)) > PadTo
    /\ ret["ep_ratio"].kind = "float"
    /\ ret["ep_ratio"].scaled > 0

\* v is the m-th root of last/first, minus 1, rounded to the nearest 1/1000.
IsRoundedGrowth(v, first, last, m) ==
    /\ v.kind = "float"
    /\ v.digits = 3
    /\ ((1999 + 2 * v.scaled) ^ m) * first <= last * (2000 ^ m)
    /\ last * (2000 ^ m) <= ((2001 + 2 * v.scaled) ^ m) * first

\* C9: div_growth takes the changes from each amount to the next in the
\* reverse of the fetched order and returns and deposits the geometric
\* mean of (1 + change), minus 1, rounded to 3 decimals.  The product of
\* the factors amounts[i+1] / amounts[i] is newest / oldest, so the mean
\* is its root.  Amounts 1.00, 1.10, 1.21 oldest to newest give 0.10.
C9_DividendGrowth ==
    LET h == fetched["div_growth"].dividends
        n == Len(h)
    IN  (Finished("div_growth") /\ HasData("div_growth"))
            => /\ pc["div_growth"] = "done"
               /\ store["Average Dividend growth"]
                      = ("Average Dividend growth" :> ret["div_growth"])
               /\ (n >= 2 /\ \A i \in 1..n : h[i] > 0)
                      => IsRoundedGrowth(ret["div_growth"], h[n], h[1], n - 1)
               /\ h = <<121, 110, 100>> => ret["div_growth"] = Float(3, 100)

C9_Witness ==
    /\ pc["div_growth"] = "done"
    /\ fetched["div_growth"].dividends = <<132, 110, 100>>
    /\ Stored("div_growth") = Float(3, 149)

\* C4: the six functions write pairwise distinct keys and none reads the
\* store, so however their invocations interleave, once all six have ended
\* the store is the one left by running them one after another, in any
\* order, on the same fetched data.
Orders == {o \in [1..Cardinality(Funcs) -> Funcs] : \A f \in Funcs : \E i \in DOMAIN o : o[i] = f}

\* The store after f runs to its end on manager with the data it fetched
\* (none when its fetch raised).
RunAlone(manager, f) ==
    IF ~HasData(f) THEN manager
    ELSE LET o == Outcome(f, fetched[f])
         IN  IF o.status = "raised" THEN manager ELSE Put(manager, o.key, o.entry)

RECURSIVE RunInOrder(_, _, _)
RunInOrder(manager, order, i) ==
    IF i > Len(order) THEN manager
    ELSE RunInOrder(RunAlone(manager, order[i]), order, i + 1)

C4_InterleavingsAgree ==
    (\A f \in Funcs : Finished(f))
        => \A order \in Orders : store = RunInOrder(EmptyStore, order, 1)

C4_Witness ==
    /\ \A f \in Funcs : pc[f] = "done"
    /\ DOMAIN store = {KeyOf(f) : f \in Funcs}

\* The store that only the completed invocations leave.
StoreOfCompleted ==
    [k \in {KeyOf(f) : f \in {g \in Funcs : pc[g] = "done"}} |->
        Outcome(CHOOSE f \in Funcs : KeyOf(f) = k,
                fetched[CHOOSE f \in Funcs : KeyOf(f) = k]).entry]

\* C8: a fault other than a caught division by zero ends only its own
\* invocation: the step that raises leaves the whole store unchanged, and
\* the store always is what the completed invocations wrote, as if the
\* failing ones had never run.
C8_FaultLeavesStore ==
    /\ [][\A f \in Funcs :
             (pc[f] # "raised" /\ pc'[f] = "raised") => store' = store]_vars
    /\ [](store = StoreOfCompleted)

C8_Witness ==
    /\ pc["ro_equity"] = "raised"
    /\ ret["ro_equity"] = KeyError
    /\ pc["ep_ratio"] = "raised"
    /\ ret["ep_ratio"] = FetchError
    /\ \A f \in Funcs \ {"ro_equity", "ep_ratio"} : pc[f] = "done"
    /\ DOMAIN store = {KeyOf(f) : f \in Funcs \ {"ro_equity", "ep_ratio"}}

\* C10: every entry of the store is a one-entry mapping whose inner key is
\* the outer key; for the latest invocation of a ratio function, when it
\* completed, the inner value is the missing marker exactly when it
\* returned None and otherwise is the number it returned; a zero numerator
\* over a non-zero denominator stores the number 0, not the missing marker.
C10_EntriesMatchReturns ==
    /\ \A k \in DOMAIN store : DOMAIN store[k] = {k}
    /\ \A f \in Ratios :
          pc[f] = "done" =>
              /\ Wrote(f)
              /\ (Stored(f) = PdNA) <=> (ret[f] = PyNone)
              /\ ret[f] # PyNone => (ret[f].kind = "float" /\ Stored(f) = ret[f])
              /\ (OperandsPresent(f) /\ ~ZeroDenominator(f) /\ Numerator(f) = 0)
                     => Stored(f) = Float(2, 0)

C10_Witness ==
    /\ calls = MaxCalls
    /\ \A f \in Funcs \ {"ro_assets", "pb_ratio"} : pc[f] = "idle"
    /\ pc["pb_ratio"] = "done"
    /\ Stored("pb_ratio") = PdNA
    /\ pc["ro_assets"] = "done"
    /\ Numerator("ro_assets") = 0
    /\ Stored("ro_assets") = Float(2, 0)

=============================================================================
